---- MODULE Spec2Model ----
(***************************************************************************)
(* Model of the cutting-stock core of SteelBoy.py:                         *)
(*   best_fit_cutting_stock          (item expansion, sort, best-fit loop) *)
(*   generate_pattern_details_table  (per-bin pattern rows)                *)
(*   generate_final_report           (aggregate row)                       *)
(*                                                                         *)
(* Lengths, stock length and kerf are whole millimetres, so all the        *)
(* arithmetic below is exact.  The Python code holds the kerf as a binary  *)
(* float; rounding noise of non-dyadic kerf values (0.1 mm) is outside     *)
(* this model.  Figures the report gives in metres and kilograms are kept  *)
(* as exact integers in millimetres and grams (x/1000 m = x mm,            *)
(* x/1000 m * w kg/m = x*w g).                                             *)
(***************************************************************************)
EXTENDS Integers, Sequences, FiniteSets, Bags, TLC

\* ------------------------------------------------------------------ bounds
MaxParts == 3
MaxDemand == 2

\* ------------------------------------------------------- input value sets
Lengths == {50, 90, 100}
StockLengths == {150}
Kerfs == {0, 10}

\* lengths in which the second profile is ordered, as single pieces
SecondLengths == {100, 160}

\* a part is the tuple (profile, length, demand, weight_per_m) that
\* read_csv_parts appends: length > 0 and demand > 0.  Profile "A" has a
\* Weight(kg/m) of 2, profile "B" has none (0).
PartSet ==
  {<<"A", l, d, 2>> : l \in Lengths, d \in 1..MaxDemand}
    \cup {<<"B", l, 1, 0>> : l \in SecondLengths}

RECURSIVE SeqsUpTo(_, _)
SeqsUpTo(S, n) ==
  IF n = 0 THEN {<<>>}
  ELSE LET shorter == SeqsUpTo(S, n - 1)
       IN shorter \cup {Append(s, x) : s \in {t \in shorter : Len(t) = n - 1}, x \in S}

PartLists == {ps \in SeqsUpTo(PartSet, MaxParts) : Len(ps) > 0}

\* float('inf') of the scan: remaining_after of a fitting bin is never
\* negative, so a negative number stands for "no candidate yet"
Inf == -1

None == 0

\* ------------------------------------------------------------------- state
VARIABLES
  parts,         \* argument: list of (profile, length, demand, weight)
  stock_length,  \* argument
  cut_kerf,      \* argument
  items,         \* local list `items` of best_fit_cutting_stock
  idx,           \* number of items the for-loop has consumed
  bins,          \* local list `bins`: [remaining, cuts]
  pc,            \* "start" | "pack" | "done"
  patternOut,    \* last table_data of generate_pattern_details_table
  finalOut,      \* last table_data of generate_final_report
  patCalled,     \* generate_pattern_details_table has been called
  finCalled      \* generate_final_report has been called

vars == <<parts, stock_length, cut_kerf, items, idx, bins, pc,
          patternOut, finalOut, patCalled, finCalled>>

\* ------------------------------------------------- item expansion and sort
\* [(profile, length)] * demand
Copies(item, n) == [k \in 1..n |-> item]

\* variant: the demand is ignored, one item per request
Expand_NoDemand(ps) == [k \in 1..Len(ps) |-> <<ps[k][1], ps[k][2]>>]

\* for profile, length, demand, _ in parts: items.extend(...)
RECURSIVE Expand(_)
Expand(ps) ==
  IF ps = <<>> THEN <<>>
  ELSE Copies(<<Head(ps)[1], Head(ps)[2]>>, Head(ps)[3]) \o Expand(Tail(ps))

\* variant: x goes in front of the elements of equal key (unstable)
RECURSIVE InsertDesc_Unstable(_, _)
InsertDesc_Unstable(s, x) ==
  IF s = <<>> THEN <<x>>
  ELSE IF Head(s)[2] > x[2] THEN <<Head(s)>> \o InsertDesc_Unstable(Tail(s), x)
       ELSE <<x>> \o s

\* position of x in an already sorted list: behind every element whose key
\* is >= the key of x (stable, reverse=True keeps ties in original order)
RECURSIVE InsertDesc(_, _)
InsertDesc(s, x) ==
  IF s = <<>> THEN <<x>>
  ELSE IF Head(s)[2] >= x[2] THEN <<Head(s)>> \o InsertDesc(Tail(s), x)
       ELSE <<x>> \o s

\* items.sort(key=lambda x: x[1], reverse=True)
RECURSIVE SortDesc(_)
SortDesc(s) ==
  IF s = <<>> THEN <<>>
  ELSE InsertDesc(SortDesc(SubSeq(s, 1, Len(s) - 1)), s[Len(s)])

\* ------------------------------------------------------- best-fit scan
\* effective_length = length + cut_kerf
EffectiveLength(length, kerf) == length + kerf

\* variant: the bin is tested against the bare length, without the kerf
Fits_NoKerf(bin, eff) == bin.remaining >= eff - cut_kerf

\* if bin['remaining'] >= effective_length
Fits(bin, eff) == bin.remaining >= eff

\* variant: the comparison is reversed, the loosest fitting bin wins
Better_Loosest(remaining_after, min_remaining) ==
  min_remaining = Inf \/ remaining_after > min_remaining

\* variant: <= in place of <, the last of equally tight bins wins
Better_OrEqual(remaining_after, min_remaining) ==
  min_remaining = Inf \/ remaining_after <= min_remaining

\* if remaining_after < min_remaining
Better(remaining_after, min_remaining) ==
  min_remaining = Inf \/ remaining_after < min_remaining

\* for bin in bins: ... ; result is the index of best_bin, None if unset
RECURSIVE Scan(_, _, _, _, _)
Scan(b, eff, k, best_bin, min_remaining) ==
  IF k > Len(b) THEN best_bin
  ELSE IF Fits(b[k], eff) /\ Better(b[k].remaining - eff, min_remaining)
       THEN Scan(b, eff, k + 1, k, b[k].remaining - eff)
       ELSE Scan(b, eff, k + 1, best_bin, min_remaining)

BestBin(b, eff) == Scan(b, eff, 1, None, Inf)

\* best_bin['remaining'] -= effective_length; best_bin['cuts'].append(...)
AddCut(bin, item, eff) ==
  [remaining |-> bin.remaining - eff, cuts |-> Append(bin.cuts, item)]

\* variant: a new bin is charged the bare length, without the kerf
NewBin_NoKerf(item, sl, eff) == [remaining |-> sl - item[2], cuts |-> <<item>>]

\* {'remaining': stock_length - effective_length, 'cuts': [(profile, length)]}
NewBin(item, sl, eff) == [remaining |-> sl - eff, cuts |-> <<item>>]

\* variant: bins.insert(0, ...)
AppendBin_Front(b, nb) == <<nb>> \o b

\* bins.append(...)
AppendBin(b, nb) == Append(b, nb)

\* ---------------------------------------------------------------- reporters
\* sum(length for _, length in bin['cuts'])
RECURSIVE total_length(_)
total_length(cuts) ==
  IF cuts = <<>> THEN 0 ELSE cuts[1][2] + total_length(Tail(cuts))

\* ' + '.join(f"1x {profile}({length}mm)" for profile, length in bin['cuts']):
\* one entry per cut, each with the literal count 1
cut_details(cuts) ==
  [k \in 1..Len(cuts) |-> [count |-> 1, profile |-> cuts[k][1], length |-> cuts[k][2]]]

\* variant: pattern_length is the unused local total_length
PatternRow_TotalLength(i, bin, sl) ==
  [pattern_name |-> i,
   pattern_length |-> total_length(bin.cuts),
   cut_details |-> cut_details(bin.cuts),
   remaining_waste |-> bin.remaining]

\* [pattern_name, pattern_length, cut_details, remaining_waste]
PatternRow(i, bin, sl) ==
  [pattern_name |-> i,
   pattern_length |-> sl - bin.remaining,
   cut_details |-> cut_details(bin.cuts),
   remaining_waste |-> bin.remaining]

\* for i, bin in enumerate(bins, 1): table_data.append(...)
generate_pattern_details_table(b, sl) ==
  [i \in 1..Len(b) |-> PatternRow(i, b[i], sl)]

\* sum(length * demand for _, length, demand, _ in parts)
RECURSIVE SumUsage(_)
SumUsage(ps) ==
  IF ps = <<>> THEN 0 ELSE ps[1][2] * ps[1][3] + SumUsage(Tail(ps))

\* sum(demand for _, _, demand, _ in parts)
RECURSIVE SumDemand(_)
SumDemand(ps) ==
  IF ps = <<>> THEN 0 ELSE ps[1][3] + SumDemand(Tail(ps))

\* variant: the kerf term is left out of the waste
WasteMm_NoKerf(ps, b, sl, kerf) == Len(b) * sl - SumUsage(ps)

\* waste_mm = total_stock_consumed_mm - effective_usage_mm - cut_kerf * sum(demand)
WasteMm(ps, b, sl, kerf) ==
  Len(b) * sl - SumUsage(ps) - kerf * SumDemand(ps)

\* the single row of table_data; *_m fields hold millimetres and *_kg fields
\* hold grams (the code divides by 1000)
generate_final_report(ps, b, sl, kerf, profile) ==
  LET weight_per_m == ps[1][4]
      consumed == Len(b) * sl
      usage == SumUsage(ps)
      waste == WasteMm(ps, b, sl, kerf)
  IN << [profile |-> IF profile # "" THEN profile ELSE ps[1][1],
         total_stocks_used |-> Len(b),
         stock_length |-> sl,
         weight_per_m |-> weight_per_m,
         total_stock_consumed_m |-> consumed,
         effective_usage_m |-> usage,
         waste_m |-> waste,
         total_order_weight_kg |-> IF weight_per_m > 0 THEN consumed * weight_per_m ELSE 0,
         effective_weight_kg |-> IF weight_per_m > 0 THEN usage * weight_per_m ELSE 0,
         waste_weight_kg |-> IF weight_per_m > 0 THEN waste * weight_per_m ELSE 0] >>

\* ------------------------------------------------------------------ Init
Init ==
  /\ parts \in PartLists
  /\ stock_length \in StockLengths
  /\ cut_kerf \in Kerfs
  /\ items = <<>>
  /\ idx = 0
  /\ bins = <<>>
  /\ pc = "start"
  /\ patternOut = <<>>
  /\ finalOut = <<>>
  /\ patCalled = FALSE
  /\ finCalled = FALSE

\* lines 60-65: expand, sort, bins = []
ExpandAndSort ==
  /\ pc = "start"
  /\ items' = SortDesc(Expand(parts))
  /\ idx' = 0
  /\ bins' = <<>>
  /\ pc' = "pack"
  /\ UNCHANGED <<parts, stock_length, cut_kerf, patternOut, finalOut, patCalled, finCalled>>

\* lines 66-80: one loop iteration that finds a best bin
PlaceInBest ==
  /\ pc = "pack"
  /\ idx < Len(items)
  /\ LET item == items[idx + 1]
         eff == EffectiveLength(item[2], cut_kerf)
         best == BestBin(bins, eff)
     IN /\ best # None
        /\ bins' = [bins EXCEPT ![best] = AddCut(bins[best], item, eff)]
  /\ idx' = idx + 1
  /\ UNCHANGED <<parts, stock_length, cut_kerf, items, pc, patternOut, finalOut, patCalled, finCalled>>

\* lines 66-77, 81-85: one loop iteration that opens a new bin
PlaceInNew ==
  /\ pc = "pack"
  /\ idx < Len(items)
  /\ LET item == items[idx + 1]
         eff == EffectiveLength(item[2], cut_kerf)
     IN /\ BestBin(bins, eff) = None
        /\ bins' = AppendBin(bins, NewBin(item, stock_length, eff))
  /\ idx' = idx + 1
  /\ UNCHANGED <<parts, stock_length, cut_kerf, items, pc, patternOut, finalOut, patCalled, finCalled>>

\* line 86: return bins
Return ==
  /\ pc = "pack"
  /\ idx = Len(items)
  /\ pc' = "done"
  /\ UNCHANGED <<parts, stock_length, cut_kerf, items, idx, bins, patternOut, finalOut, patCalled, finCalled>>

\* line 206: details_table, det_headers = generate_pattern_details_table(bins, stock_length)
PatternReport ==
  /\ pc = "done"
  /\ patternOut' = generate_pattern_details_table(bins, stock_length)
  /\ patCalled' = TRUE
  /\ UNCHANGED <<parts, stock_length, cut_kerf, items, idx, bins, pc, finalOut, finCalled>>

\* line 199: agg_table, agg_headers = generate_final_report(group, bins, stock_length, cut_kerf, profile)
FinalReport ==
  /\ pc = "done"
  /\ finalOut' = generate_final_report(parts, bins, stock_length, cut_kerf, parts[1][1])
  /\ finCalled' = TRUE
  /\ UNCHANGED <<parts, stock_length, cut_kerf, items, idx, bins, pc, patternOut, patCalled>>

Next ==
  \/ ExpandAndSort
  \/ PlaceInBest
  \/ PlaceInNew
  \/ Return
  \/ PatternReport
  \/ FinalReport

Spec == Init /\ [][Next]_vars

\* ================================================================ helpers
RECURSIVE BagOfSeq(_)
BagOfSeq(s) ==
  IF s = <<>> THEN EmptyBag ELSE BagOfSeq(Tail(s)) (+) SetToBag({Head(s)})

\* all cuts of all bins, bin by bin
RECURSIVE AllCuts(_)
AllCuts(b) ==
  IF b = <<>> THEN <<>> ELSE Head(b).cuts \o AllCuts(Tail(b))

\* total quantity the requests ask for of one (profile, length) pair
RECURSIVE Requested(_, _)
Requested(ps, pl) ==
  IF ps = <<>> THEN 0
  ELSE (IF <<ps[1][1], ps[1][2]>> = pl THEN ps[1][3] ELSE 0) + Requested(Tail(ps), pl)

RequestPairs(ps) == {<<ps[k][1], ps[k][2]>> : k \in 1..Len(ps)}

\* the multiset holding each request's (profile, length) `quantity` times
RequestBag(ps) == [pl \in RequestPairs(ps) |-> Requested(ps, pl)]

\* sum(length + kerf) over a list of cuts
RECURSIVE SumEff(_, _)
SumEff(cuts, kerf) ==
  IF cuts = <<>> THEN 0 ELSE (cuts[1][2] + kerf) + SumEff(Tail(cuts), kerf)

RECURSIVE SumRemaining(_)
SumRemaining(b) ==
  IF b = <<>> THEN 0 ELSE Head(b).remaining + SumRemaining(Tail(b))

OverLength(item) == item[2] + cut_kerf > stock_length

HoldsOverLength(bin) == \E k \in 1..Len(bin.cuts) : OverLength(bin.cuts[k])

Packing == pc \in {"pack", "done"}

\* a step of the for-loop of best_fit_cutting_stock
PlacementStep == pc = "pack" /\ idx' = idx + 1

IsPrefix(s, t) == Len(s) <= Len(t) /\ SubSeq(t, 1, Len(s)) = s

NonIncreasing(s) == \A k \in 1..(Len(s) - 1) : s[k][2] >= s[k + 1][2]

\* bins that can take an item of effective length eff
Fitting(b, eff) == {k \in 1..Len(b) : b[k].remaining >= eff}

\* fitting bins that leave the least remaining capacity
Tightest(b, eff) ==
  {k \in Fitting(b, eff) : \A j \in Fitting(b, eff) : b[k].remaining <= b[j].remaining}

SetMin(S) == CHOOSE m \in S : \A n \in S : m <= n

\* ================================================================= claims

\* C1: conservation. After every placement step the multiset of cuts over
\* all bins equals the multiset of the items processed so far, the item list
\* holds each request's (profile, length) exactly `quantity` times, and the
\* returned bins hold exactly that multiset.
C1_Conservation ==
  Packing =>
    /\ BagOfSeq(items) = RequestBag(parts)
    /\ BagOfSeq(AllCuts(bins)) = BagOfSeq(SubSeq(items, 1, idx))
    /\ pc = "done" => BagOfSeq(AllCuts(bins)) = RequestBag(parts)

C1_Witness ==
  /\ pc = "done"
  /\ Len(bins) >= 2
  /\ Len(parts) >= 2
  /\ \E k \in 1..Len(parts) : parts[k][3] >= 2
  /\ \E k \in 1..Len(bins) : Len(bins[k].cuts) >= 2

\* C2: capacity with the over-length exception. Every bin that holds no
\* over-length item has sum(length + kerf) <= stock_length; a bin that holds
\* an over-length item holds exactly that one cut and has negative remaining
\* at every moment (so nothing is added to it later); every over-length item
\* processed so far sits in such a bin, and the loop can always take its
\* next step (no item is rejected).
C2_Capacity ==
  Packing =>
    /\ \A k \in 1..Len(bins) :
         IF HoldsOverLength(bins[k])
         THEN Len(bins[k].cuts) = 1 /\ bins[k].remaining < 0
         ELSE SumEff(bins[k].cuts, cut_kerf) <= stock_length
    /\ Cardinality({k \in 1..Len(bins) : HoldsOverLength(bins[k])})
         = Cardinality({k \in 1..idx : OverLength(items[k])})
    /\ (pc = "pack" /\ idx < Len(items)) => ENABLED (PlaceInBest \/ PlaceInNew)

C2_Witness ==
  /\ pc = "done"
  /\ \E k \in 1..Len(bins) : HoldsOverLength(bins[k]) /\ k < Len(bins)
  /\ \E k \in 1..Len(bins) : ~HoldsOverLength(bins[k]) /\ Len(bins[k].cuts) >= 2

\* C3: best-fit selection. At each placement step, if some bin fits the item
\* it goes to a fitting bin with minimal remaining-after and no bin is
\* opened; otherwise a new bin [stock_length - (length + kerf), [item]] is
\* appended. Items 100, 90, 50 with stock 150 and kerf 0 give the bins
\* [100, 50] remaining 0 and [90] remaining 60.
C3_Step ==
  PlacementStep =>
    LET item == items[idx + 1]
        eff == item[2] + cut_kerf
    IN IF Fitting(bins, eff) # {}
       THEN /\ Len(bins') = Len(bins)
            /\ \E k \in Tightest(bins, eff) :
                 bins' = [bins EXCEPT ![k] = [remaining |-> bins[k].remaining - eff,
                                              cuts |-> Append(bins[k].cuts, item)]]
       ELSE bins' = Append(bins, [remaining |-> stock_length - eff, cuts |-> <<item>>])

LengthsOf(s) == [k \in 1..Len(s) |-> s[k][2]]

C3_Example ==
  (/\ pc = "done"
   /\ LengthsOf(items) = <<100, 90, 50>>
   /\ stock_length = 150
   /\ cut_kerf = 0)
  => /\ Len(bins) = 2
     /\ LengthsOf(bins[1].cuts) = <<100, 50>> /\ bins[1].remaining = 0
     /\ LengthsOf(bins[2].cuts) = <<90>> /\ bins[2].remaining = 60

C3_BestFit == [][C3_Step /\ C3_Example']_vars

C3_Witness ==
  /\ pc = "done"
  /\ LengthsOf(items) = <<100, 90, 50>>
  /\ stock_length = 150
  /\ cut_kerf = 0
  /\ Len(bins) = 2
  /\ bins[1].remaining = 0

RECURSIVE NumRuns(_)
NumRuns(cuts) ==
  IF cuts = <<>> THEN 0
  ELSE IF Len(cuts) = 1 THEN 1
  ELSE (IF cuts[1] = cuts[2] THEN 0 ELSE 1) + NumRuns(Tail(cuts))

RECURSIVE SumCounts(_)
SumCounts(entries) ==
  IF entries = <<>> THEN 0 ELSE Head(entries).count + SumCounts(Tail(entries))

\* C5: pattern reporter grouping. In every pattern row the cut description
\* has one entry per maximal run of consecutive identical (profile, length)
\* cuts of the bin, and the entries' counts sum to the number of cuts.
C5_Grouping ==
  patCalled =>
    \A i \in 1..Len(patternOut) :
      /\ Len(patternOut[i].cut_details) = NumRuns(bins[i].cuts)
      /\ SumCounts(patternOut[i].cut_details) = Len(bins[i].cuts)

ReporterStep == pc = "done"

RowsMatchBins ==
  patCalled =>
    /\ Len(patternOut) = Len(bins)
    /\ \A i \in 1..Len(bins) :
         /\ patternOut[i].pattern_name = i
         /\ patternOut[i].remaining_waste = bins[i].remaining
         /\ patternOut[i].pattern_length = stock_length - bins[i].remaining
         /\ patternOut[i].pattern_length = SumEff(bins[i].cuts, cut_kerf)

C7_Step ==
  ReporterStep =>
    /\ bins' = bins /\ parts' = parts /\ items' = items
    /\ stock_length' = stock_length /\ cut_kerf' = cut_kerf
    /\ patCalled => patternOut' = patternOut
    /\ finCalled => finalOut' = finalOut
    /\ RowsMatchBins'

C7_ReadOnly == [][C7_Step]_vars

C7_Witness ==
  /\ patCalled
  /\ finCalled
  /\ cut_kerf > 0
  /\ Len(bins) >= 2
  /\ \E k \in 1..Len(bins) : Len(bins[k].cuts) >= 2

\* C8: largest-first stable processing order. The item list is non-increasing
\* in length, items of equal length keep the order of the expanded list, each
\* step places the next item of that list, the cuts of every bin are
\* non-increasing and so are the first cuts of the bins.
SameLength(L, s) == SelectSeq(s, LAMBDA x : x[2] = L)

FirstCuts(b) == [k \in 1..Len(b) |-> b[k].cuts[1]]

C8_State ==
  Packing =>
    /\ NonIncreasing(items)
    /\ \A L \in Lengths \cup SecondLengths : SameLength(L, items) = SameLength(L, Expand(parts))
    /\ \A k \in 1..Len(bins) : NonIncreasing(bins[k].cuts)
    /\ NonIncreasing(FirstCuts(bins))

C8_Step ==
  PlacementStep =>
    \E k \in 1..Len(bins') :
      /\ bins'[k].cuts[Len(bins'[k].cuts)] = items[idx + 1]
      /\ k > Len(bins) \/ Len(bins'[k].cuts) = Len(bins[k].cuts) + 1

C8_Order == [][C8_State' /\ C8_Step]_vars

C8_Witness ==
  /\ pc = "done"
  /\ \E i, j \in 1..Len(parts) :
       i < j /\ parts[i][2] = parts[j][2] /\ parts[i][1] # parts[j][1]
  /\ \E i, j \in 1..Len(parts) : i < j /\ parts[i][2] < parts[j][2]
  /\ \E k \in 1..Len(bins) :
       Len(bins[k].cuts) >= 2 /\ bins[k].cuts[1][1] # bins[k].cuts[2][1]

\* C9: bins evolve monotonically. A placement step keeps every existing bin
\* at its position, each bin's old cuts are a prefix of its new cuts, no
\* remaining increases, and either exactly one existing bin changes or
\* exactly one bin is appended at the end; no other step changes the bins.
C9_Step ==
  /\ PlacementStep =>
       /\ Len(bins') >= Len(bins)
       /\ \A k \in 1..Len(bins) :
            /\ IsPrefix(bins[k].cuts, bins'[k].cuts)
            /\ bins'[k].remaining <= bins[k].remaining
       /\ \/ /\ Len(bins') = Len(bins) + 1
             /\ SubSeq(bins', 1, Len(bins)) = bins
          \/ /\ Len(bins') = Len(bins)
             /\ Cardinality({k \in 1..Len(bins) : bins'[k] # bins[k]}) = 1
  /\ (Packing /\ ~PlacementStep) => bins' = bins

C9_Monotone == [][C9_Step]_vars

C9_Witness ==
  /\ pc = "done"
  /\ Len(bins) >= 3
  /\ Len(bins[1].cuts) >= 2
  /\ Len(bins[Len(bins)].cuts) = 1

\* C10: tie-break. When several fitting bins leave the same minimal
\* remaining-after, the item goes to the one of lowest index, so the next
\* bin sequence is determined by the current one and the item.
C10_Step ==
  PlacementStep =>
    LET item == items[idx + 1]
        eff == item[2] + cut_kerf
    IN Fitting(bins, eff) # {} =>
         LET k == SetMin(Tightest(bins, eff))
         IN bins' = [bins EXCEPT ![k] = [remaining |-> bins[k].remaining - eff,
                                         cuts |-> Append(bins[k].cuts, item)]]

C10_TieBreak == [][C10_Step]_vars

C10_Witness ==
  /\ pc = "done"
  /\ stock_length = 150
  /\ cut_kerf = 0
  /\ Len(bins) = 2
  /\ LengthsOf(bins[1].cuts) = <<100, 50>>
  /\ LengthsOf(bins[2].cuts) = <<100>>
====
